---- MODULE Spec2Model ----
(***************************************************************************)
(* OPRT mirror loop v0.3+ : the decision engine of                          *)
(* scripts/mirror_loop_v0_3_plus.py as a state machine.                     *)
(*                                                                         *)
(* Fixed-point units (the Python code works on floats):                     *)
(*   phase-vector components, volume_ratio, trap_T, gate multipliers 1/100  *)
(*   C_raw / C_loc / C_eff and the ceff thresholds                   1/1000 *)
(*   tech coherence (coh) and the coh thresholds                     1/1000 *)
(*   sentiment index                                                 1/10   *)
(*   angles: whole degrees, rounded up (every threshold the code compares   *)
(*   an angle with is a whole number of degrees, so angle <= thr is kept)   *)
(***************************************************************************)
EXTENDS Integers, Sequences, FiniteSets, TLC

None == "None"

\* ------------------------------------------------------------------------
\* small numeric helpers
\* ------------------------------------------------------------------------
Abs(x) == IF x < 0 THEN -x ELSE x
Max2(a, b) == IF a >= b THEN a ELSE b
Min2(a, b) == IF a <= b THEN a ELSE b

\* floor of the square root, by bisection: lo*lo <= n < hi*hi
RECURSIVE ISqrtIn(_, _, _)
ISqrtIn(n, lo, hi) ==
    IF hi - lo <= 1 THEN lo
    ELSE LET mid == (lo + hi) \div 2
         IN IF mid * mid <= n THEN ISqrtIn(n, mid, hi) ELSE ISqrtIn(n, lo, mid)
ISqrt(n) == ISqrtIn(n, 0, 46341)

VecSum(v) == v[1] + v[2] + v[3] + v[4] + v[5]
VecDot(v, w) == v[1]*w[1] + v[2]*w[2] + v[3]*w[3] + v[4]*w[4] + v[5]*w[5]
VecSub(v, w) == [i \in 1..5 |-> v[i] - w[i]]
VecAdd(v, w) == [i \in 1..5 |-> v[i] + w[i]]
VecScale(k, v) == [i \in 1..5 |-> k * v[i]]
ZeroVec == [i \in 1..5 |-> 0]

\* ------------------------------------------------------------------------
\* module-level data
\* ------------------------------------------------------------------------
ASSETS == <<"BTC", "ETH", "SOL", "SPX", "NDX", "DXY", "GOLD", "US10Y">>
AssetSet == {ASSETS[i] : i \in 1..Len(ASSETS)}

\* AgentOut.from_json: phase_vector defaults to [1,1,1,1,1]
DefaultPhaseVector == [i \in 1..5 |-> 100]

\* ------------------------------------------------------------------------
\* PhaseCoherence
\* ------------------------------------------------------------------------
\* np.std(delta_phi) in 1/10000: sqrt(5*sum(x^2) - sum(x)^2) / 5 on components
\* in 1/100, i.e. sqrt(400 * (5*sum(x^2) - sum(x)^2)) in 1/10000
Std1e4(d) == ISqrt(400 * (5 * VecDot(d, d) - VecSum(d) * VecSum(d)))

\* (c_raw_whole_percent: the deviation taken in whole percent)
c_raw_whole_percent(delta_phi, kappa) ==
    (100000 * 10000) \div (10000 + kappa * 100 * (Std1e4(delta_phi) \div 100))

\* 100 / (1 + kappa*std), result in 1/1000
c_raw_from_delta(delta_phi, kappa) ==
    (100000 * 10000) \div (10000 + kappa * Std1e4(delta_phi))

\* ------------------------------------------------------------------------
\* GlobalAlignment
\* ------------------------------------------------------------------------
\* delta_by_asset: function on a set of asset names.  The result carries
\* the sum of the other assets' deltas and their number (the mean is
\* sum/n; only its direction is used downstream) and whether the pooled
\* standard deviation of all their components is 0, in which case
\* 1.0/float(np.std(mat)) raises ZeroDivisionError.
RECURSIVE SumDeltas(_, _)
SumDeltas(delta_by_asset, S) ==
    IF S = {} THEN ZeroVec
    ELSE LET a == CHOOSE x \in S : TRUE
         IN VecAdd(delta_by_asset[a], SumDeltas(delta_by_asset, S \ {a}))

global_vector_and_metrics(delta_by_asset) ==
    LET others == {a \in DOMAIN delta_by_asset : a # "BTC"}
    IN IF others = {}
       THEN [vec |-> ZeroVec, n |-> 1, raises |-> None]
       ELSE LET elems == {delta_by_asset[a][i] : a \in others, i \in 1..5}
            IN [vec    |-> SumDeltas(delta_by_asset, others),
                n      |-> Cardinality(others),
                raises |-> IF Cardinality(elems) = 1
                           THEN "ZeroDivisionError" ELSE None]

\* round(1000 * cos(d degrees)^2) for d = 0..90 (index d+1)
Cos2Tab == <<
    1000, 1000, 999, 997, 995, 992, 989, 985, 981, 976, 970, 964, 957,
    949, 941, 933, 924, 915, 905, 894, 883, 872, 860, 847, 835, 821,
    808, 794, 780, 765, 750, 735, 719, 703, 687, 671, 655, 638, 621,
    604, 587, 570, 552, 535, 517, 500, 483, 465, 448, 430, 413, 396,
    379, 362, 345, 329, 313, 297, 281, 265, 250, 235, 220, 206, 192,
    179, 165, 153, 140, 128, 117, 106, 95, 85, 76, 67, 59, 51,
    43, 36, 30, 24, 19, 15, 11, 8, 5, 3, 1, 0, 0 >>

\* cos(d)^2 <= num/den, i.e. acos(sqrt(num/den)) <= d
CosAtMost(num, den, d) == num * 1000 >= Cos2Tab[d + 1] * den

\* least whole d in 0..90 with acos(sqrt(num/den)) <= d, by bisection:
\* the angle is above lo and at most hi
RECURSIVE AcosCeilIn(_, _, _, _)
AcosCeilIn(num, den, lo, hi) ==
    IF hi - lo <= 1 THEN hi
    ELSE LET mid == (lo + hi) \div 2
         IN IF CosAtMost(num, den, mid) THEN AcosCeilIn(num, den, lo, mid)
            ELSE AcosCeilIn(num, den, mid, hi)
AcosCeil(num, den) == IF CosAtMost(num, den, 0) THEN 0 ELSE AcosCeilIn(num, den, 0, 90)

\* greatest whole d in 0..90 with d <= acos(sqrt(num/den)), by bisection:
\* the angle is at least lo and below hi
RECURSIVE AcosFloorIn(_, _, _, _)
AcosFloorIn(num, den, lo, hi) ==
    IF hi - lo <= 1 THEN lo
    ELSE LET mid == (lo + hi) \div 2
         IN IF num * 1000 <= Cos2Tab[mid + 1] * den THEN AcosFloorIn(num, den, mid, hi)
            ELSE AcosFloorIn(num, den, lo, mid)
AcosFloor(num, den) == AcosFloorIn(num, den, 0, 91)

\* v/(norm+1e-9) of the zero vector is the zero vector, so the dot product
\* is 0 and acos(0) = 90 degrees; otherwise the 1e-9 is below the resolution.
phase_angle_deg(v1, v2) ==
    LET n1 == VecDot(v1, v1)
        n2 == VecDot(v2, v2)
        dt == VecDot(v1, v2)
        \* keeps the products of the comparison within 32 bits
        k  == (n1 * n2) \div 1000000 + 1
    IN IF n1 = 0 \/ n2 = 0 \/ dt = 0 THEN 90
       ELSE IF dt > 0 THEN AcosCeil((dt * dt) \div k, (n1 * n2) \div k)
       ELSE 180 - AcosFloor((dt * dt) \div k, (n1 * n2) \div k)

\* multiplier in 1/100
\* (AlignMultUpper: each boundary angle taken into the band above it)
AlignMultUpper(angle) ==
    IF angle < 10 THEN 100
    ELSE IF angle < 35 THEN 115
    ELSE IF angle < 45 THEN 100
    ELSE 70

AlignMult(angle) ==
    IF angle <= 10 THEN 100
    ELSE IF angle <= 35 THEN 115
    ELSE IF angle <= 45 THEN 100
    ELSE 70

apply_global_alignment(c_local, angle) == (c_local * AlignMult(angle)) \div 100

\* ------------------------------------------------------------------------
\* GateBattery, TrapVeto, TechnicalBias
\* ------------------------------------------------------------------------
gate_volume(r) ==
    IF r >= 130 THEN 100
    ELSE IF r >= 115 THEN 98
    ELSE IF r >= 100 THEN 92
    ELSE 85

\* (trap_probability_steep: 0.90 below 0.95)
trap_probability_steep(v) ==
    IF v >= 130 THEN 10
    ELSE IF v >= 115 THEN 20
    ELSE IF v >= 105 THEN 30
    ELSE IF v >= 95 THEN 50
    ELSE 90

trap_probability(v) ==
    IF v >= 130 THEN 10
    ELSE IF v >= 115 THEN 20
    ELSE IF v >= 105 THEN 30
    ELSE IF v >= 95 THEN 50
    ELSE 70

\* (tech_bias_sign_bull_default: bullish unless both alignments are bear)
tech_bias_sign_bull_default(tf) ==
    IF tf.H4 = "bear" /\ tf.H1 = "bear" THEN -1
    ELSE 1

tech_bias_sign_from_tf(tf) ==
    IF tf.H4 = "bull" /\ tf.H1 = "bull" THEN 1
    ELSE IF tf.H4 = "bear" /\ tf.H1 = "bear" THEN -1
    ELSE 0

\* indicators: [ema |-> [H4, H1], hist_slope |-> [H4, H1], rsi |-> [H4, H1]]
\* norm_trend, norm_momo, norm_rsi in 1/1000
norm_trend(ema) == IF ema = "50>200" THEN 700 ELSE -700
norm_momo(slope) == IF slope = "+" THEN 1000 ELSE -1000
norm_rsi(r) == Max2(-1000, Min2(1000, (r - 50) * 40))

\* 3 * S_tf in 1/1000
S3(ind, tf) == norm_trend(ind.ema[tf]) + norm_momo(ind.hist_slope[tf]) + norm_rsi(ind.rsi[tf])

\* g in 1/10000; coh as logged and compared: round(coh, 3) in 1/1000
compute_tech_detail(ind) ==
    LET s4 == S3(ind, "H4")
        s1 == S3(ind, "H1")
        coh3 == Max2(0, 3000 - Abs(s4 - s1))       \* 3 * coh in 1/1000
        sdir6 == Abs(s4 + s1)                      \* 6 * |S_dir| in 1/1000
    IN [g   |-> 8500 + (sdir6 * coh3) \div 12000,
        coh |-> (coh3 + 1) \div 3]

gate_tf(tech_sign) == IF tech_sign # 0 THEN 100 ELSE 50

\* si in 1/10, thr in 1/10, mult in 1/100
gate_sentiment_conflict(si, tech_sign, thr, mult) ==
    LET v == Max2(-30, Min2(30, si))
        conflict == (v > 0 /\ tech_sign < 0) \/ (v < 0 /\ tech_sign > 0)
    IN IF Abs(v) >= thr /\ conflict THEN Max2(50, 100 - mult) ELSE 100

gate_flows(flows, up_short_mult, down_long_mult) ==
    IF flows.oi = "up" /\ flows.liq_skew = "short" THEN 100 + up_short_mult
    ELSE IF flows.oi = "down" /\ flows.liq_skew = "long" THEN Max2(80, 100 - down_long_mult)
    ELSE 100

\* (size_band_from_ce_margin: Full only from 20 points above the threshold)
size_band_from_ce_margin(C_eff, full) ==
    IF C_eff >= full + 20000 THEN "Full"
    ELSE IF C_eff >= Max2(32000, full - 20000) THEN "Half"
    ELSE "Watch"

size_band_from_ce(C_eff, full) ==
    IF C_eff >= full THEN "Full"
    ELSE IF C_eff >= Max2(32000, full - 20000) THEN "Half"
    ELSE "Watch"

\* ------------------------------------------------------------------------
\* mock_agent_json / AgentOut.from_json
\* ------------------------------------------------------------------------
\* the non-random fields of mock_agent_json(True), as read by AgentOut.from_json
mock_agent_json ==
    [tf_alignment    |-> [H4 |-> "bull", H1 |-> "bull"],
     indicators      |-> [ema        |-> [H4 |-> "50>200", H1 |-> "50>200"],
                          hist_slope |-> [H4 |-> "+", H1 |-> "+"],
                          rsi        |-> [H4 |-> 62, H1 |-> 60]],
     volume_ratio    |-> 105,
     leaders         |-> [ETH |-> "+", SOL |-> "+"],
     flows           |-> [oi |-> "up", liq_skew |-> "short"],
     sentiment_index |-> 10]

\* The feature file pair (X_A.json, X_B.json) of one asset is a record
\*   [status, bull_pv, bear_pv]
\* status "ok": both files exist and parse; bull_pv is the phase_vector of
\*   X_A.json and bear_pv that of X_B.json;
\* status "missing": one of the files does not exist; the mock records are
\*   used and bull_pv / bear_pv are the vectors _mock_vec drew;
\* status "malformed": both exist and one is not valid JSON (load_json raises).
\* The other fields of BTC_A.json are the record `agent` of the inputs.

\* ------------------------------------------------------------------------
\* StateStore
\* ------------------------------------------------------------------------
\* loop_state.json is [kind, starve_cnt, last_strong]:
\*   "absent"      the file does not exist
\*   "unreadable"  it is not valid JSON
\*   "notdict"     it is JSON but not an object
\*   "badcnt"      it is an object whose starve_cnt is not convertible by int()
\*   "dict"        it is an object with an integer starve_cnt
AbsentState == [kind |-> "absent", starve_cnt |-> 0, last_strong |-> FALSE]

\* read_state followed by line 343: the int() conversion raises on "badcnt"
read_state(file) ==
    IF file.kind = "dict" THEN [raises |-> None, starve_cnt |-> file.starve_cnt]
    ELSE IF file.kind = "badcnt" THEN [raises |-> "ValueError", starve_cnt |-> 0]
    ELSE [raises |-> None, starve_cnt |-> 0]

StarveCap == 1000

\* no reset on a BUY/SELL
write_state_no_reset(signal, starve_cnt) ==
    [kind        |-> "dict",
     starve_cnt  |-> Min2(StarveCap, starve_cnt + 1),
     last_strong |-> (signal # "WATCH")]
write_state(signal, starve_cnt) ==
    [kind        |-> "dict",
     starve_cnt  |-> IF signal # "WATCH" THEN 0 ELSE Min2(StarveCap, starve_cnt + 1),
     last_strong |-> (signal # "WATCH")]

\* ------------------------------------------------------------------------
\* configuration (argparse defaults of main)
\* ------------------------------------------------------------------------
\* an optional argument is <<>> when not given (None) and <<v>> otherwise
DefaultArgs ==
    [kappa                    |-> 20,
     strong_angle_min         |-> 12,
     strong_angle_max         |-> 35,
     strong_ceff_enter_active |-> 66000,
     strong_ceff_enter_quiet  |-> 70000,
     coh_enter                |-> 500,
     vol_enter                |-> 100,
     lite_enable              |-> TRUE,
     lite_angle_min           |-> 12,
     lite_angle_max           |-> 45,
     lite_ceff_enter          |-> 48000,
     lite_coh_enter           |-> 350,
     lite_vol_enter           |-> 95,
     lite_rescue_min_vol      |-> 85,
     si_conflict_threshold    |-> 20,
     si_conflict_mult         |-> <<>>,
     flows_up_short_mult      |-> <<>>,
     flows_down_long_mult     |-> <<>>,
     trap_cutoff              |-> 80,
     lite_starve_cycles       |-> <<>>]

\* line 253
FastgateVol == 80
\* no fastgate at all
IsFastgateNever(volume_ratio) == FALSE
IsFastgate(volume_ratio) == volume_ratio < FastgateVol

\* coc_stats.json is [kind, decile]: "absent" (no file), "unreadable" (not
\* JSON, or no usable 'decile' entry: any exception is swallowed) or "ok"
\* the try block of lines 308-315: the local `decile` is bound only when the
\* conversion succeeded
ReadDecile(coc_stats) == IF coc_stats.kind = "ok" THEN <<coc_stats.decile>> ELSE <<>>

\* the low-regime loosening without its cap of 60
StrongAnglesUncapped(args, decile) ==
    IF decile # <<>> /\ decile[1] >= 7
    THEN [amin |-> args.strong_angle_min, amax |-> Min2(args.strong_angle_max, 35)]
    ELSE IF decile # <<>> /\ decile[1] <= 2
    THEN [amin |-> Max2(0, args.strong_angle_min - 5), amax |-> args.strong_angle_max + 10]
    ELSE [amin |-> args.strong_angle_min, amax |-> args.strong_angle_max]
StrongAngles(args, decile) ==
    IF decile # <<>> /\ decile[1] >= 7
    THEN [amin |-> args.strong_angle_min, amax |-> Min2(args.strong_angle_max, 35)]
    ELSE IF decile # <<>> /\ decile[1] <= 2
    THEN [amin |-> Max2(0, args.strong_angle_min - 5), amax |-> Min2(60, args.strong_angle_max + 10)]
    ELSE [amin |-> args.strong_angle_min, amax |-> args.strong_angle_max]

LiteAngleMax(args, decile) ==
    IF decile # <<>> /\ decile[1] >= 7 THEN Min2(args.lite_angle_max, 35)
    ELSE args.lite_angle_max

\* ------------------------------------------------------------------------
\* the audit of the checks
\* ------------------------------------------------------------------------
\* insertion order of the keys of `checks`
CheckOrder == <<"ceff", "phase", "volume", "coh", "tf", "herald", "trap_veto">>
\* HardGateOrder is the tuple scanned for hard_gate_reason (line 381);
\* HardGateOrderAsChecked has the same names in the order of the dict checks
HardGateOrderAsChecked == <<"ceff", "phase", "volume", "coh", "tf", "herald">>
HardGateOrder == <<"phase", "ceff", "volume", "tf", "coh", "herald">>

\* any() where all() is meant
AllChecksAny(checks) == \E k \in DOMAIN checks : checks[k]
AllChecks(checks) == \A k \in DOMAIN checks : checks[k]

FailedChecks(checks) ==
    SelectSeq(CheckOrder, LAMBDA k : k \in DOMAIN checks /\ checks[k] = FALSE)

SeqToSet(q) == {q[i] : i \in 1..Len(q)}

FirstListed(order, names) ==
    IF \E i \in 1..Len(order) : order[i] \in names
    THEN order[CHOOSE i \in 1..Len(order) :
                  /\ order[i] \in names
                  /\ \A j \in 1..(i - 1) : order[j] \notin names]
    ELSE None

\* the veto left out of the reason
HardGateReasonScanOnly(trap_veto, failed_checks) ==
    FirstListed(HardGateOrder, SeqToSet(failed_checks))
HardGateReason(trap_veto, failed_checks) ==
    IF trap_veto THEN "trap_veto"
    ELSE FirstListed(HardGateOrder, SeqToSet(failed_checks))

\* ------------------------------------------------------------------------
\* main
\* ------------------------------------------------------------------------
\* What one run of main leaves behind:
\*   pc        "raised" (uncaught exception), "fastgate" (early return) or "done"
\*   raises    the exception, or None
\*   out       the record appended to the decisions log (NoRecord if none)
\*   loc       the locals of main when it ended
\*   file      loop_state.json after the run
\*   jsonl, skipped, csv, heartbeat   number of lines appended to each log
NoRecord == [signal |-> None]

Raised(exc, file, l) ==
    [pc |-> "raised", raises |-> exc, out |-> NoRecord, loc |-> l,
     file |-> file, jsonl |-> 0, skipped |-> 0, csv |-> 0, heartbeat |-> 0]

\* line 304: regime-aware C_eff threshold of the strong tier
ThrFull(args, volume_ratio) ==
    IF volume_ratio < 100 THEN args.strong_ceff_enter_quiet
    ELSE args.strong_ceff_enter_active

\* (TrapVetoAnyHerald: the veto not lifted by the herald)
TrapVetoAnyHerald(trap_T, args, herald_ok) == (trap_T > args.trap_cutoff)
\* line 331
TrapVeto(trap_T, args, herald_ok) == (trap_T > args.trap_cutoff) /\ ~herald_ok

\* line 336 / 370
SignalFor(tech_sign) == IF tech_sign >= 0 THEN "BUY" ELSE "SELL"

\* the hard 0.75 of the earlier version
VolRescueHard(volume_ratio, args, herald_ok, tf_ok) ==
    (volume_ratio >= 75) /\ herald_ok /\ tf_ok
\* line 355
VolRescueOk(volume_ratio, args, herald_ok, tf_ok) ==
    (volume_ratio >= args.lite_rescue_min_vol) /\ herald_ok /\ tf_ok

\* line 357
CeffLiteThr(args, volume_ratio) ==
    IF volume_ratio >= args.lite_vol_enter THEN args.lite_ceff_enter
    ELSE Max2(35000, args.lite_ceff_enter - 6000)

\* line 344
LiteGuardOk(args, starve_cnt) ==
    IF args.lite_starve_cycles = <<>> THEN TRUE
    ELSE starve_cnt >= args.lite_starve_cycles[1]

\* the lite tier sized by C_eff like the strong one
SizeBandByCeff(mode, C_eff, thr_full) == size_band_from_ce(C_eff, thr_full)
\* line 373
SizeBand(mode, C_eff, thr_full) ==
    IF mode = "lite" THEN "Half" ELSE size_band_from_ce(C_eff, thr_full)

HeraldOf(A) ==
    LET leaders_ok == (A.leaders.ETH = "+") \/ (A.leaders.SOL = "+")
        flows_ok   == (A.flows.oi = "up") /\ (A.flows.liq_skew = "short")
    IN [leaders_ok |-> leaders_ok, flows_ok |-> flows_ok,
        herald_ok |-> (leaders_ok \/ flows_ok)]

\* lines 252-292: the fastgate branch returns before the state file and the
\* heartbeat are touched
Fastgate(args, A, C_loc, angle, file) ==
    LET h == HeraldOf(A)
    IN [pc |-> "fastgate", raises |-> None,
        out |-> [signal           |-> "WATCH",
                 size_band        |-> "Watch",
                 mode             |-> "baseline",
                 reason           |-> "volume_low_fastgate",
                 is_watch         |-> TRUE,
                 volume_ratio     |-> A.volume_ratio,
                 phase_angle_deg  |-> angle,
                 trap_T           |-> trap_probability(A.volume_ratio),
                 herald_ok        |-> h.herald_ok,
                 leaders_ok       |-> h.leaders_ok,
                 flows_ok         |-> h.flows_ok,
                 checks_values    |-> [ceff   |-> [thr |-> ThrFull(args, A.volume_ratio)],
                                       phase  |-> [thr_min |-> args.strong_angle_min,
                                                   thr_max |-> args.strong_angle_max],
                                       volume |-> [thr |-> args.vol_enter]],
                 failed_checks    |-> <<"volume">>,
                 hard_gate_reason |-> "volume",
                 conditions_ready |-> FALSE,
                 gate_note        |-> "watch_fastgate"],
        loc |-> [args |-> args, A |-> A, C_loc |-> C_loc, angle |-> angle],
        file |-> file, jsonl |-> 1, skipped |-> 1, csv |-> 1, heartbeat |-> 0]

\* The rest of main, in four steps.  Each takes the locals so far as a
\* record l and gives them back with its own assignments made; a name that is
\* assigned again takes the new value.

\* lines 294-302: the tech bias, the gate multipliers and C_eff
Gates(l) ==
    LET args      == l.args
        A         == l.A
        up_mult   == IF args.flows_up_short_mult = <<>> THEN 5 ELSE args.flows_up_short_mult[1]
        down_mult == IF args.flows_down_long_mult = <<>> THEN 5 ELSE args.flows_down_long_mult[1]
        si_mult   == IF args.si_conflict_mult = <<>> THEN 25 ELSE args.si_conflict_mult[1]
        tech_sign == tech_bias_sign_from_tf(A.tf_alignment)
        tech      == compute_tech_detail(A.indicators)
        g_volume  == gate_volume(A.volume_ratio)
        g_tf      == gate_tf(tech_sign)
        g_sent    == gate_sentiment_conflict(A.sentiment_index, tech_sign,
                                             args.si_conflict_threshold, si_mult)
        g_flow    == gate_flows(A.flows, up_mult, down_mult)
    IN [tech_sign |-> tech_sign,
        tech_coh  |-> tech.coh,
        trap_T    |-> trap_probability(A.volume_ratio),
        C_eff     |-> (((((((((l.C_loc * g_volume) \div 100) * g_tf) \div 100)
                          * g_sent) \div 100) * g_flow) \div 100) * tech.g) \div 10000]
       @@ l

\* lines 304-338: the thresholds, the six checks, the veto and the strong tier
StrongTier(l, coc_stats) ==
    LET args      == l.args
        A         == l.A
        decile    == ReadDecile(coc_stats)
        ang       == StrongAngles(args, decile)
        thr_full  == ThrFull(args, A.volume_ratio)
        h         == HeraldOf(A)
        tf_ok     == (l.tech_sign # 0)
        checks6   == [ceff   |-> (l.C_eff >= thr_full),
                      phase  |-> (l.angle <= ang.amax),
                      volume |-> (A.volume_ratio >= args.vol_enter),
                      coh    |-> (l.tech_coh > args.coh_enter),
                      tf     |-> tf_ok,
                      herald |-> h.herald_ok]
        trap_veto == TrapVeto(l.trap_T, args, h.herald_ok)
        checks    == IF trap_veto THEN checks6 @@ [trap_veto |-> FALSE] ELSE checks6
        strong_ok == AllChecks(checks)
    IN [thr_full   |-> thr_full,
        decile     |-> decile,
        amin       |-> ang.amin,
        amax       |-> ang.amax,
        leaders_ok |-> h.leaders_ok,
        flows_ok   |-> h.flows_ok,
        herald_ok  |-> h.herald_ok,
        tf_ok      |-> tf_ok,
        checks     |-> checks,
        trap_veto  |-> trap_veto,
        strong_ok  |-> strong_ok,
        signal     |-> IF strong_ok THEN SignalFor(l.tech_sign) ELSE "WATCH",
        w_code     |-> IF strong_ok THEN "strong" ELSE "weak_zone",
        mode       |-> IF strong_ok THEN "strong" ELSE "baseline",
        gate_note  |-> IF strong_ok THEN "strong_full" ELSE "watch_checks"]
       @@ l

\* lines 340-371: the state read and the lite tier.  lite_eval tells whether
\* the branch of line 346 is taken; its locals are meaningful only then.
LiteTier(l, file) ==
    LET args          == l.args
        A             == l.A
        st            == read_state(file)
        lite_eval     == (~l.strong_ok) /\ args.lite_enable
        vol_rescue_ok == VolRescueOk(A.volume_ratio, args, l.herald_ok, l.tf_ok)
        ceff_l_thr    == CeffLiteThr(args, A.volume_ratio)
        lite_guard_ok == LiteGuardOk(args, st.starve_cnt)
        checks_l      == [ceff         |-> (l.C_eff >= ceff_l_thr),
                          phase        |-> (l.angle <= LiteAngleMax(args, l.decile)),
                          volume       |-> ((A.volume_ratio >= args.lite_vol_enter)
                                            \/ vol_rescue_ok),
                          coh          |-> (l.tech_coh > args.lite_coh_enter),
                          tf           |-> l.tf_ok,
                          herald       |-> l.herald_ok,
                          starve_guard |-> lite_guard_ok]
        lite_ok       == lite_eval /\ (~l.trap_veto) /\ AllChecks(checks_l)
    IN (IF lite_ok
        THEN [signal    |-> SignalFor(l.tech_sign),
              w_code    |-> "lite",
              mode      |-> "lite",
              gate_note |-> IF vol_rescue_ok THEN "lite_rescue" ELSE "lite_default"]
        ELSE [lite_ok |-> FALSE])
       @@ [state_raises  |-> st.raises,
           starve_cnt    |-> st.starve_cnt,
           lite_guard_ok |-> lite_guard_ok,
           lite_eval     |-> lite_eval,
           vol_rescue_ok |-> vol_rescue_ok,
           ceff_l_thr    |-> ceff_l_thr,
           checks_l      |-> checks_l,
           lite_ok       |-> lite_ok]
       @@ l

\* lines 373-446: the size band, the reasons of a WATCH, the summary, the
\* logs, the state file and the heartbeat
Summary(l, file) ==
    LET args             == l.args
        A                == l.A
        size_band        == SizeBand(l.mode, l.C_eff, l.thr_full)
        failed_checks    == FailedChecks(l.checks)
        hard_gate_reason == HardGateReason(l.trap_veto, failed_checks)
        summary0 ==
            [signal           |-> l.signal,
             w_code           |-> l.w_code,
             size_band        |-> size_band,
             mode             |-> l.mode,
             C_eff            |-> l.C_eff,
             phase_angle_deg  |-> l.angle,
             volume_ratio     |-> A.volume_ratio,
             regime           |-> IF A.volume_ratio < 100 THEN "quiet" ELSE "active",
             trap_T           |-> l.trap_T,
             herald_ok        |-> l.herald_ok,
             leaders_ok       |-> l.leaders_ok,
             flows_ok         |-> l.flows_ok,
             tech_coh         |-> l.tech_coh,
             checks_values    |-> [ceff   |-> [actual |-> l.C_eff, thr |-> l.thr_full],
                                   phase  |-> [actual |-> l.angle, thr_min |-> l.amin,
                                               thr_max |-> l.amax],
                                   volume |-> [actual |-> A.volume_ratio, thr |-> args.vol_enter],
                                   coh    |-> [actual |-> l.tech_coh, thr |-> args.coh_enter]],
             starve_cnt       |-> l.starve_cnt,
             lite_guard_ok    |-> l.lite_guard_ok,
             gate_note        |-> l.gate_note,
             conditions_ready |-> ((A.volume_ratio >= 100) /\ (l.trap_T <= args.trap_cutoff)
                                   /\ l.herald_ok /\ l.tf_ok)]
        reasons ==
            IF hard_gate_reason # None
            THEN [failed_checks |-> failed_checks, hard_gate_reason |-> hard_gate_reason]
            ELSE [failed_checks |-> failed_checks]
    IN IF l.state_raises # None THEN Raised(l.state_raises, file, l)
       ELSE [pc |-> "done", raises |-> None,
             out |-> IF l.signal = "WATCH" THEN summary0 @@ reasons ELSE summary0,
             loc |-> l,
             file |-> write_state(l.signal, l.starve_cnt),
             jsonl |-> 1, skipped |-> IF l.signal = "WATCH" THEN 1 ELSE 0,
             csv |-> 1, heartbeat |-> 1]

\* lines 294-446
Full(args, A, C_loc, angle, coc_stats, file) ==
    Summary(LiteTier(StrongTier(Gates([args |-> args, A |-> A, C_loc |-> C_loc,
                                       angle |-> angle]),
                                coc_stats),
                     file),
            file)

\* lines 219-245 as far as the phase vectors go: the load of the files, the
\* deltas, C_raw, the global vector, the angle and C_loc
Coherence(files, kappa) ==
    LET delta_by_asset == [a \in AssetSet |-> VecSub(files[a].bull_pv, files[a].bear_pv)]
        btc_delta == delta_by_asset["BTC"]
        C_raw == c_raw_from_delta(btc_delta, kappa)
        glob == global_vector_and_metrics(delta_by_asset)
        angle == phase_angle_deg(btc_delta, glob.vec)
    IN [raises |-> IF \E a \in AssetSet : files[a].status = "malformed"
                   THEN "JSONDecodeError" ELSE glob.raises,
        btc_delta |-> btc_delta, C_raw |-> C_raw, angle |-> angle,
        C_loc |-> apply_global_alignment(C_raw, angle)]

\* ------------------------------------------------------------------------
\* the inputs one run can be given
\* ------------------------------------------------------------------------
TFs == [bull   |-> [H4 |-> "bull", H1 |-> "bull"],
        bear   |-> [H4 |-> "bear", H1 |-> "bear"],
        mixed  |-> [H4 |-> "bull", H1 |-> "bear"],
        flat   |-> [H4 |-> "neutral", H1 |-> "neutral"]]

IndBull  == [ema        |-> [H4 |-> "50>200", H1 |-> "50>200"],
             hist_slope |-> [H4 |-> "+", H1 |-> "+"],
             rsi        |-> [H4 |-> 62, H1 |-> 60]]
IndBear  == [ema        |-> [H4 |-> "50<200", H1 |-> "50<200"],
             hist_slope |-> [H4 |-> "-", H1 |-> "-"],
             rsi        |-> [H4 |-> 42, H1 |-> 45]]
IndMixed == [ema        |-> [H4 |-> "50>200", H1 |-> "50<200"],
             hist_slope |-> [H4 |-> "+", H1 |-> "-"],
             rsi        |-> [H4 |-> 60, H1 |-> 40]]
IndSoft  == [ema        |-> [H4 |-> "50>200", H1 |-> "50>200"],
             hist_slope |-> [H4 |-> "+", H1 |-> "-"],
             rsi        |-> [H4 |-> 50, H1 |-> 60]]

TechInputs == { <<TFs.bull, IndBull>>, <<TFs.bear, IndBear>>, <<TFs.mixed, IndMixed>>,
                <<TFs.bull, IndSoft>>, <<TFs.flat, IndBull>> }

VolumeRatios == {40, 79, 80, 87, 95, 100, 135}

HeraldInputs ==
    { [leaders |-> [ETH |-> "+", SOL |-> "-"], flows |-> [oi |-> "flat", liq_skew |-> "flat"]],
      [leaders |-> [ETH |-> "-", SOL |-> "-"], flows |-> [oi |-> "up",   liq_skew |-> "short"]],
      [leaders |-> [ETH |-> "-", SOL |-> "-"], flows |-> [oi |-> "flat", liq_skew |-> "flat"]] }

Agent(t, v, h, si) ==
    [tf_alignment |-> t[1], indicators |-> t[2], volume_ratio |-> v,
     leaders |-> h.leaders, flows |-> h.flows, sentiment_index |-> si]

\* the contents BTC_A.json can have (phase_vector apart)
BtcAgents == { Agent(t, v, h, 10) : t \in TechInputs, v \in VolumeRatios, h \in HeraldInputs }
\* ... with a sentiment that contradicts a bullish bias, or an unwinding flow
SomeAgents ==
    { Agent(t, v, [leaders |-> [ETH |-> "+", SOL |-> "+"], flows |-> f], si) :
        t \in TechInputs, v \in {87, 100, 135}, si \in {10, -25},
        f \in {[oi |-> "down", liq_skew |-> "long"], [oi |-> "up", liq_skew |-> "short"]} }

Uniform(x) == [i \in 1..5 |-> x]

OkFile(bull, bear) == [status |-> "ok", bull_pv |-> bull, bear_pv |-> bear]
MissingFile(bull, bear) == [status |-> "missing", bull_pv |-> bull, bear_pv |-> bear]
MalformedFile ==
    [status |-> "malformed", bull_pv |-> DefaultPhaseVector, bear_pv |-> DefaultPhaseVector]
\* a peer file pair whose delta is d
PeerFile(d) == OkFile(VecAdd(DefaultPhaseVector, d), DefaultPhaseVector)

\* vectors _mock_vec(1.04) and _mock_vec(0.96) can draw
MockDraws == [bull1 |-> <<106, 101, 104, 99, 107>>, bear1 |-> <<98, 95, 97, 91, 96>>,
              bull2 |-> <<101, 108, 104, 110, 99>>, bear2 |-> <<94, 99, 96, 103, 90>>]

\* the BTC file pairs
BtcEven    == OkFile(Uniform(104), Uniform(96))                 \* delta all 8, sigma 0
BtcNear    == OkFile(<<106, 102, 105, 103, 104>>, Uniform(96))   \* delta 10,6,9,7,8
BtcSpread  == OkFile(<<108, 98, 106, 100, 103>>, Uniform(96))    \* delta 12,2,10,4,7
BtcSame    == OkFile(Uniform(100), Uniform(100))                \* identical vectors
BtcBearish == OkFile(Uniform(96), Uniform(104))                 \* delta all -8
BtcMock    == MissingFile(MockDraws.bull1, MockDraws.bear1)

\* the peers: ETH and SOL share one file pair, the five macro assets another
Peers(crypto, macro) ==
    [a \in AssetSet \ {"BTC"} |-> IF a \in {"ETH", "SOL"} THEN crypto ELSE macro]

PeersSweet == Peers(PeerFile(<<3, 1, 2, 2, 2>>), PeerFile(<<2, 2, 3, 1, 2>>))
PeersTight == Peers(PeerFile(<<2, 2, 2, 2, 3>>), PeerFile(<<2, 2, 2, 2, 2>>))
PeersLoose == Peers(PeerFile(<<3, 0, 1, 0, 0>>), PeerFile(<<2, 1, 0, 0, 1>>))
PeersApart == Peers(PeerFile(<<3, 0, 0, 0, -1>>), PeerFile(<<2, 0, 0, 0, 0>>))
\* every peer's bull and bear vectors are the same (e.g. no phase_vector key)
PeersFlat  == Peers(PeerFile(ZeroVec), PeerFile(ZeroVec))
PeersMock  == Peers(MissingFile(MockDraws.bull1, MockDraws.bear2),
                    MissingFile(MockDraws.bull2, MockDraws.bear1))
PeersBad   == Peers(PeerFile(<<3, 1, 2, 2, 2>>), MalformedFile)

Files(btc, peers) == [a \in AssetSet |-> IF a = "BTC" THEN btc ELSE peers[a]]

\* the agents directories the runs are given, by name
FileSets ==
    [even_sweet   |-> Files(BtcEven, PeersSweet),
     even_tight   |-> Files(BtcEven, PeersTight),
     even_loose   |-> Files(BtcEven, PeersLoose),
     even_apart   |-> Files(BtcEven, PeersApart),
     near_tight   |-> Files(BtcNear, PeersTight),
     spread_sweet |-> Files(BtcSpread, PeersSweet),
     same_sweet   |-> Files(BtcSame, PeersSweet),
     bearish      |-> Files(BtcBearish, PeersSweet),
     mock_btc     |-> Files(BtcMock, PeersSweet),
     mock_all     |-> Files(BtcMock, PeersMock),
     mock_peers   |-> Files(BtcEven, PeersMock),
     flat_peers   |-> Files(BtcEven, PeersFlat),
     bad_peer     |-> Files(BtcEven, PeersBad),
     bad_btc      |-> Files(MalformedFile, PeersSweet)]

\* Coherence of each of them, computed once
CoherenceOf == [n \in DOMAIN FileSets |-> Coherence(FileSets[n], DefaultArgs.kappa)]

\* lines 240-241: btc_delta and C_raw are locals of main as well
WithCoherence(r, coh) ==
    [r EXCEPT !.loc = [btc_delta |-> coh.btc_delta, C_raw |-> coh.C_raw] @@ @]

\* in = [files, agent, args, coc_stats]: the name of the agents directory,
\* the contents of BTC_A.json, the command line and coc_stats.json
\* lines 228 and 246-446 once the agents are loaded and the coherence computed
Outcome(coh, A, in, file) ==
    IF coh.raises = "JSONDecodeError" THEN Raised(coh.raises, file, [args |-> in.args])
    ELSE WithCoherence(
             IF coh.raises # None THEN Raised(coh.raises, file, [args |-> in.args, A |-> A])
             ELSE IF IsFastgate(A.volume_ratio)
             THEN Fastgate(in.args, A, coh.C_loc, coh.angle, file)
             ELSE Full(in.args, A, coh.C_loc, coh.angle, in.coc_stats, file),
             coh)

\* line 228 after lines 220-227: the BTC record, the mock one if a file is missing
AgentOf(in) ==
    IF FileSets[in.files]["BTC"].status = "ok" THEN in.agent ELSE mock_agent_json

main(in, file) == Outcome(CoherenceOf[in.files], AgentOf(in), in, file)

PlainAgent == [tf_alignment |-> TFs.bull, indicators |-> IndBull, volume_ratio |-> 135,
               leaders |-> [ETH |-> "+", SOL |-> "-"],
               flows |-> [oi |-> "flat", liq_skew |-> "flat"], sentiment_index |-> 10]

ThinAgent == [PlainAgent EXCEPT !.volume_ratio = 79]

AbsentCoc == [kind |-> "absent", decile |-> 0]

\* the command lines (with the coc_stats.json found) the runs are given
Setups ==
    { <<DefaultArgs, AbsentCoc>>,
      <<DefaultArgs, [kind |-> "unreadable", decile |-> 0]>>,
      <<DefaultArgs, [kind |-> "ok", decile |-> 1]>>,
      <<DefaultArgs, [kind |-> "ok", decile |-> 8]>>,
      <<[DefaultArgs EXCEPT !.trap_cutoff = 60], AbsentCoc>>,
      <<[DefaultArgs EXCEPT !.lite_starve_cycles = <<2>>], AbsentCoc>>,
      <<[DefaultArgs EXCEPT !.trap_cutoff = 60, !.lite_starve_cycles = <<2>>],
        [kind |-> "ok", decile |-> 8]>> }

Input(n, a, args, cs) == [files |-> n, agent |-> a, args |-> args, coc_stats |-> cs]

MainFileSets == {"even_sweet", "even_loose", "even_apart", "near_tight", "spread_sweet",
                 "same_sweet"}

SideFileSets == {"even_tight", "bearish", "spread_sweet"}

Inputs ==
    { Input(n, a, s[1], s[2]) : n \in MainFileSets, a \in BtcAgents, s \in Setups }
    \cup { Input(n, a, DefaultArgs, AbsentCoc) : n \in SideFileSets, a \in SomeAgents }
    \cup { Input(n, a, s[1], s[2]) :
             n \in DOMAIN FileSets \ (MainFileSets \cup {"even_tight", "bearish"}),
             a \in {PlainAgent, ThinAgent}, s \in Setups }

\* loop_state.json as a run may find it when it was not written by the engine
ForeignStates ==
    { AbsentState,
      [kind |-> "unreadable", starve_cnt |-> 0, last_strong |-> FALSE],
      [kind |-> "notdict", starve_cnt |-> 0, last_strong |-> FALSE],
      [kind |-> "badcnt", starve_cnt |-> 0, last_strong |-> FALSE] }

\* ------------------------------------------------------------------------
\* the state machine: runs of main, one after the other
\* ------------------------------------------------------------------------
\* the longest run of consecutive WATCH decisions the model follows
MaxWatchRun == 4

VARIABLES
    pc,        \* "idle" between runs; else how the last run ended
    raises,    \* the exception that ended it, or None
    out,       \* the record it appended to the decisions log
    loc,       \* its locals
    appended,  \* the number of lines it appended to each log
    file,      \* loop_state.json
    watchRun,  \* WATCH decisions logged since the last BUY/SELL decision (or the start)
    signals_jsonl, \* the lines of signals.jsonl in the analytics directory
    held       \* the inputs a scheduler repeats run after run, or NoRecord

vars == <<pc, raises, out, loc, appended, file, watchRun, signals_jsonl, held>>

NoLines == [jsonl |-> 0, skipped |-> 0, csv |-> 0, heartbeat |-> 0]

Init ==
    /\ pc = "idle"
    /\ raises = None
    /\ out = NoRecord
    /\ loc = NoRecord
    /\ appended = NoLines
    /\ file = AbsentState
    /\ watchRun = 0
    /\ signals_jsonl = <<>>
    /\ held = NoRecord

InitAnyState ==
    /\ pc = "idle"
    /\ raises = None
    /\ out = NoRecord
    /\ loc = NoRecord
    /\ appended = NoLines
    /\ file \in ForeignStates
    /\ watchRun = 0
    /\ signals_jsonl = <<>>
    /\ held = NoRecord

\* the run ends as r tells
Ends(r) ==
    /\ pc' = r.pc
    /\ raises' = r.raises
    /\ out' = r.out
    /\ loc' = r.loc
    /\ appended' = [jsonl |-> r.jsonl, skipped |-> r.skipped, csv |-> r.csv,
                    heartbeat |-> r.heartbeat]
    /\ file' = r.file
    /\ watchRun' = IF r.pc = "raised" THEN watchRun
                   ELSE IF r.out.signal = "WATCH" THEN watchRun + 1
                   ELSE 0
    /\ UNCHANGED <<signals_jsonl, held>>

\* one run of main on the inputs in
Run(in) ==
    /\ pc = "idle"
    /\ watchRun < MaxWatchRun
    /\ Ends(main(in, file))

Invoke == \E in \in Inputs : Run(in)

\* the process ends; nothing of it is left but the files
Exit ==
    /\ pc # "idle"
    /\ pc' = "idle"
    /\ raises' = None
    /\ out' = NoRecord
    /\ loc' = NoRecord
    /\ appended' = NoLines
    /\ UNCHANGED <<file, watchRun, signals_jsonl, held>>

Next == Invoke \/ Exit

Spec == Init /\ [][Next]_vars

SpecAnyState == InitAnyState /\ [][Next]_vars

TypeOK ==
    /\ pc \in {"idle", "raised", "fastgate", "done"}
    /\ file.kind \in {"absent", "unreadable", "notdict", "badcnt", "dict"}
    /\ watchRun \in 0..MaxWatchRun

\* ------------------------------------------------------------------------
\* properties
\* ------------------------------------------------------------------------
\* the last run logged a decision
Decided == pc \in {"fastgate", "done"}

\* the six strong gates, evaluated again on the values the run logged
SixGates ==
    /\ out.C_eff >= (IF out.volume_ratio >= 100 THEN loc.args.strong_ceff_enter_active
                     ELSE loc.args.strong_ceff_enter_quiet)
    /\ out.phase_angle_deg <= out.checks_values.phase.thr_max
    /\ out.volume_ratio >= loc.args.vol_enter
    /\ out.tech_coh > loc.args.coh_enter
    /\ loc.tech_sign # 0
    /\ out.herald_ok

\* trap_T > trap_cutoff and not herald_ok, on the values the run logged
VetoCondition == out.trap_T > loc.args.trap_cutoff /\ ~out.herald_ok

\* the lite checks, evaluated again on the values the run logged
LiteVolumeGate ==
    \/ out.volume_ratio >= loc.args.lite_vol_enter
    \/ (out.volume_ratio >= loc.args.lite_rescue_min_vol /\ out.herald_ok /\ loc.tech_sign # 0)
LiteGates ==
    /\ out.C_eff >= (IF out.volume_ratio >= loc.args.lite_vol_enter THEN loc.args.lite_ceff_enter
                     ELSE Max2(35000, loc.args.lite_ceff_enter - 6000))
    /\ out.phase_angle_deg <= (IF loc.decile # <<>> /\ loc.decile[1] >= 7
                               THEN Min2(loc.args.lite_angle_max, 35)
                               ELSE loc.args.lite_angle_max)
    /\ LiteVolumeGate
    /\ out.tech_coh > loc.args.lite_coh_enter
    /\ loc.tech_sign # 0
    /\ out.herald_ok
    /\ (loc.args.lite_starve_cycles # <<>> => out.starve_cnt >= loc.args.lite_starve_cycles[1])

\* C1: past the fastgate, mode is strong exactly when the six strong gates
\* hold and the trap veto has not fired, and the signal is then BUY for
\* tech_sign >= 0 and SELL otherwise.
C1_StrongIffAllGates ==
    pc = "done" =>
        /\ (out.mode = "strong") <=> (SixGates /\ ~VetoCondition)
        /\ out.mode = "strong" => out.signal = (IF loc.tech_sign >= 0 THEN "BUY" ELSE "SELL")

C1_Witness == pc = "done" /\ out.mode = "strong" /\ out.signal = "SELL" /\ out.volume_ratio >= 100

\* C2: a run on a BTC record whose volume_ratio is under 0.80 logs WATCH /
\* Watch / baseline with reason volume_low_fastgate, whatever the other inputs.
C2_FastgateWatch ==
    (pc # "idle" /\ "A" \in DOMAIN loc /\ loc.A.volume_ratio < 80) =>
        /\ pc = "fastgate"
        /\ out.signal = "WATCH"
        /\ out.size_band = "Watch"
        /\ out.mode = "baseline"
        /\ out.reason = "volume_low_fastgate"

\* C3: mode lite only when the strong check failed, the veto did not fire and
\* every lite check holds; the signal is then BUY/SELL by tech_sign and the
\* size band is Half, whatever C_eff.
C3_LiteIsHalf ==
    (pc = "done" /\ out.mode = "lite") =>
        /\ ~SixGates
        /\ ~VetoCondition
        /\ LiteGates
        /\ out.signal = (IF loc.tech_sign >= 0 THEN "BUY" ELSE "SELL")
        /\ out.size_band = "Half"

\* a lite decision whose C_eff reaches the strong threshold
C3_Witness ==
    pc = "done" /\ out.mode = "lite" /\ out.C_eff >= out.checks_values.ceff.thr

\* C4: the lite volume check passes iff volume_ratio >= lite_vol_enter or the
\* rescue condition holds; at volume_ratio 0.87 with herald_ok and tech_sign # 0
\* the rescue admits the volume, the ceff threshold is max(35, lite_ceff_enter-6)
\* and, the other lite checks passing, the decision is lite / Half.
C4_LiteRescue ==
    (pc = "done" /\ loc.lite_eval) =>
        /\ loc.checks_l.volume <=> LiteVolumeGate
        /\ (out.volume_ratio = 87 /\ out.herald_ok /\ loc.tech_sign # 0) =>
              /\ loc.checks_l.volume
              /\ loc.ceff_l_thr = Max2(35000, loc.args.lite_ceff_enter - 6000)
              /\ (/\ out.C_eff >= loc.ceff_l_thr
                  /\ loc.checks_l.phase /\ loc.checks_l.coh /\ loc.checks_l.starve_guard)
                 => (out.mode = "lite" /\ out.size_band = "Half")

\* a rescue at 0.87 that the unrelaxed threshold would have refused
C4_Witness ==
    /\ pc = "done" /\ out.volume_ratio = 87 /\ out.mode = "lite"
    /\ out.gate_note = "lite_rescue" /\ out.C_eff < loc.args.lite_ceff_enter

\* C5 as stated: whenever trap_T > trap_cutoff and herald_ok is false, the
\* decision is WATCH with hard_gate_reason trap_veto.
C5_VetoAlwaysReported ==
    (Decided /\ VetoCondition) =>
        (out.signal = "WATCH" /\ out.hard_gate_reason = "trap_veto")

\* C5 amended: in a run that passes the fastgate, the veto fires iff
\* trap_T > trap_cutoff and herald_ok is false, and the decision is then WATCH
\* with hard_gate_reason trap_veto whatever the other gates.
C5_VetoPastFastgate ==
    pc = "done" =>
        /\ loc.trap_veto <=> VetoCondition
        /\ VetoCondition =>
              /\ out.signal = "WATCH"
              /\ out.mode = "baseline"
              /\ "hard_gate_reason" \in DOMAIN out
              /\ out.hard_gate_reason = "trap_veto"

\* the veto with the phase gate failing too
C5_Witness == pc = "done" /\ loc.trap_veto /\ ~loc.checks.phase

\* C6: from an absent state file, the persisted starve_cnt after a decision
\* is the number of WATCH decisions since the last BUY/SELL (capped at 1000),
\* the fastgate WATCH included.
C6_StarveCountsEveryWatch ==
    Decided => (file.kind = "dict" /\ file.starve_cnt = Min2(StarveCap, watchRun))

\* C7: with lite_starve_cycles = N, a lite decision comes from a run that read
\* starve_cnt >= N and follows at least N consecutive WATCH decisions.
C7_LiteOnlyAfterStarvation ==
    [][ (/\ pc = "idle" /\ pc' = "done" /\ out'.mode = "lite"
         /\ loc'.args.lite_starve_cycles # <<>>)
        => (/\ out'.starve_cnt >= loc'.args.lite_starve_cycles[1]
            /\ watchRun >= loc'.args.lite_starve_cycles[1]) ]_vars

C7_Witness ==
    /\ pc = "done" /\ out.mode = "lite"
    /\ loc.args.lite_starve_cycles = <<2>> /\ out.starve_cnt >= 2

\* the gates that failed, by name: evaluated again for a full run, as logged
\* for the fastgate
FailingGates ==
    IF pc = "fastgate" THEN SeqToSet(out.failed_checks)
    ELSE {g \in {"trap_veto"} : VetoCondition}
         \cup {g \in {"phase"} : ~(out.phase_angle_deg <= out.checks_values.phase.thr_max)}
         \cup {g \in {"ceff"} : ~(out.C_eff >= out.checks_values.ceff.thr)}
         \cup {g \in {"volume"} : ~(out.volume_ratio >= loc.args.vol_enter)}
         \cup {g \in {"tf"} : loc.tech_sign = 0}
         \cup {g \in {"coh"} : ~(out.tech_coh > loc.args.coh_enter)}
         \cup {g \in {"herald"} : ~out.herald_ok}

PriorityOrder == <<"trap_veto", "phase", "ceff", "volume", "tf", "coh", "herald">>

\* C8: a WATCH decision has a non-empty failed_checks and a hard_gate_reason,
\* the first failing gate in the order trap_veto, phase, ceff, volume, tf, coh,
\* herald.
C8_HardGateReason ==
    (Decided /\ out.signal = "WATCH") =>
        /\ "failed_checks" \in DOMAIN out
        /\ Len(out.failed_checks) >= 1
        /\ "hard_gate_reason" \in DOMAIN out
        /\ \E i \in 1..Len(PriorityOrder) :
              /\ PriorityOrder[i] = out.hard_gate_reason
              /\ PriorityOrder[i] \in FailingGates
              /\ \A j \in 1..(i - 1) : PriorityOrder[j] \notin FailingGates

\* ceff and phase both fail: ceff was checked first, phase is reported
C8_Witness ==
    /\ pc = "done" /\ out.signal = "WATCH"
    /\ {"ceff", "phase"} \subseteq SeqToSet(out.failed_checks)
    /\ out.hard_gate_reason = "phase"

\* C9: failed_checks of a WATCH decision names every gate that evaluated
\* false, those of the lite tier (starve_guard) included.
C9_FailedChecksComplete ==
    (pc = "done" /\ out.signal = "WATCH") =>
        /\ \A k \in DOMAIN loc.checks :
              ~loc.checks[k] => k \in SeqToSet(out.failed_checks)
        /\ loc.lite_eval =>
              \A k \in DOMAIN loc.checks_l :
                  ~loc.checks_l[k] => k \in SeqToSet(out.failed_checks)

\* C10: no run raises, and every run logs exactly one decision.
C10_NeverRaises ==
    /\ pc # "raised"
    /\ pc # "idle" => appended.jsonl = 1

\* C11: identical BTC bull and bear phase vectors (delta all zero), kappa 20,
\* volume_ratio 1.35, H4 and H1 bull with matching indicators, no sentiment
\* conflict, no adverse flow and herald_ok give C_raw = 100, multiplier 1.00,
\* C_loc = 100 and BUY / strong / Full.
C11_IdenticalVectorsBuy ==
    (/\ pc = "done"
     /\ loc.btc_delta = ZeroVec
     /\ loc.args.kappa = 20
     /\ loc.A.volume_ratio = 135
     /\ loc.A.tf_alignment = TFs.bull
     /\ loc.A.indicators = IndBull
     /\ loc.A.sentiment_index >= 0
     /\ ~(loc.A.flows.oi = "down" /\ loc.A.flows.liq_skew = "long")
     /\ out.herald_ok)
    => (/\ loc.C_raw = 100000
        /\ AlignMult(loc.angle) = 100
        /\ loc.C_loc = 100000
        /\ out.signal = "BUY"
        /\ out.mode = "strong"
        /\ out.size_band = "Full")

\* the trap-veto scenario of C12 as far as a logged record shows it:
\* volume_ratio 0.40, herald_ok false, default trap_cutoff
TrapScenario ==
    /\ Decided
    /\ out.volume_ratio = 40
    /\ ~out.herald_ok
    /\ loc.args.trap_cutoff = DefaultArgs.trap_cutoff

\* C12 as stated: in the trap-veto scenario the decision is WATCH with
\* hard_gate_reason trap_veto.
C12_TrapScenarioVeto ==
    TrapScenario => (out.signal = "WATCH" /\ out.hard_gate_reason = "trap_veto")

\* C12 amended: in the trap-veto scenario the decision is the fastgate WATCH,
\* with trap_T = 0.70 (not above the default cutoff 0.80) and
\* hard_gate_reason volume; never BUY/SELL.
C12_TrapScenarioFastgate ==
    TrapScenario =>
        /\ pc = "fastgate"
        /\ out.signal = "WATCH"
        /\ out.reason = "volume_low_fastgate"
        /\ out.trap_T = 70
        /\ ~(out.trap_T > loc.args.trap_cutoff)
        /\ out.hard_gate_reason = "volume"

\* the scenario with a coherence, an angle and a tech bias the strong tier accepts
C12_Witness ==
    /\ TrapScenario
    /\ loc.C_loc >= 100000 /\ loc.angle <= 35
    /\ loc.A.tf_alignment = TFs.bull /\ loc.A.indicators = IndBull

\* C15: a run that logs a decision, by whatever path, appends exactly one
\* heartbeat record.
C15_HeartbeatEveryRun == Decided => appended.heartbeat = 1

\* ------------------------------------------------------------------------
\* the functions called on their own
\* ------------------------------------------------------------------------
\* A call leaves its name and arguments in loc and what it returned in out.
MaxComp == 3

\* delta vectors with components 0 .. MaxComp (1/100), but for the middle
\* one, which is 0
LibDeltas ==
    { <<a, b, 0, c, d>> : a \in 0..MaxComp, b \in {0, MaxComp}, c \in {0, 1}, d \in {0, MaxComp} }

\* the directories of assets a call is made on: BTC alone, or with peers
LibPeers == { {}, {"ETH"}, {"ETH", "SOL"} }

LibInit ==
    /\ pc = "lib"
    /\ raises = None
    /\ out = NoRecord
    /\ loc = [fn |-> "none"]
    /\ appended = NoLines
    /\ file = AbsentState
    /\ watchRun = 0
    /\ signals_jsonl = <<>>
    /\ held = NoRecord

Returns(fn, args, ret) ==
    /\ loc.fn = "none"
    /\ pc' = "lib"
    /\ loc' = [fn |-> fn, args |-> args]
    /\ out' = ret
    /\ UNCHANGED <<raises, appended, file, watchRun, signals_jsonl, held>>

\* lines 242-244 on the deltas of the assets given
Aligned(delta_by_asset) ==
    LET glob == global_vector_and_metrics(delta_by_asset)
    IN [global_vec |-> glob.vec,
        raises     |-> glob.raises,
        angle      |-> phase_angle_deg(delta_by_asset["BTC"], glob.vec),
        mult       |-> AlignMult(phase_angle_deg(delta_by_asset["BTC"], glob.vec))]

CallAligned ==
    \E d \in LibDeltas, S \in LibPeers, p \in {<<1, 0, 0, 0, 0>>, <<1, 1, 0, 1, 2>>} :
        Returns("aligned", [a \in {"BTC"} \cup S |-> IF a = "BTC" THEN d ELSE p],
                Aligned([a \in {"BTC"} \cup S |-> IF a = "BTC" THEN d ELSE p]))

\* C13: with no peer assets the GlobalVector is the zero vector, the angle of
\* the target delta to it is 0 degrees, the multiplier is 1.00 and the phase
\* gate is not failed.
C13_NoPeersAngleZero ==
    (pc = "lib" /\ loc.fn = "aligned" /\ DOMAIN loc.args = {"BTC"}) =>
        /\ out.global_vec = ZeroVec
        /\ out.angle = 0
        /\ out.mult = 100
        /\ out.angle <= DefaultArgs.strong_angle_max

\* coc_stats.json as a run may find it; "nodecile" is an object without the
\* key decile (int(None) raises inside the try of lines 306-315)
CocStats ==
    { [kind |-> k, decile |-> 0] : k \in {"absent", "unreadable", "nodecile"} }
    \cup { [kind |-> "ok", decile |-> n] : n \in 0..9 }

\* the angle thresholds a command line may set
AngleArgs ==
    { [DefaultArgs EXCEPT !.strong_angle_min = lo, !.strong_angle_max = hi,
                          !.lite_angle_max = li] :
        lo \in {0, 3, 12}, hi \in {30, 35, 45, 55, 70}, li \in {30, 45} }

\* lines 294-371 on a record that fails the strong volume check, so that both
\* tiers are evaluated
CallTiers ==
    \E args \in AngleArgs, cs \in CocStats, angle \in {30, 36, 44, 58, 65} :
        Returns("tiers", [args |-> args, coc_stats |-> cs, angle |-> angle],
                LiteTier(StrongTier(Gates([args |-> args,
                                           A |-> [PlainAgent EXCEPT !.volume_ratio = 87],
                                           C_loc |-> 100000, angle |-> angle]),
                                    cs),
                         AbsentState))

\* C14: a decile >= 7 caps the strong and the lite angle max at 35; a decile
\* <= 2 sets the strong angle max to min(60, max + 10) and the angle min to
\* max(0, min - 5); any other decile, or none, leaves the thresholds as
\* configured.  The phase checks of both tiers use the adjusted values.
C14_RegimeAngles ==
    (pc = "lib" /\ loc.fn = "tiers") =>
        LET a   == loc.args.args
            cs  == loc.args.coc_stats
            hi  == cs.kind = "ok" /\ cs.decile >= 7
            lo  == cs.kind = "ok" /\ cs.decile <= 2
        IN /\ hi => (/\ out.amax = Min2(a.strong_angle_max, 35)
                     /\ out.amin = a.strong_angle_min
                     /\ out.checks_l.phase <=> (loc.args.angle <= Min2(a.lite_angle_max, 35)))
           /\ lo => (/\ out.amax = Min2(60, a.strong_angle_max + 10)
                     /\ out.amin = Max2(0, a.strong_angle_min - 5)
                     /\ out.checks_l.phase <=> (loc.args.angle <= a.lite_angle_max))
           /\ (~hi /\ ~lo) =>
                    (/\ out.amax = a.strong_angle_max
                     /\ out.amin = a.strong_angle_min
                     /\ out.checks_l.phase <=> (loc.args.angle <= a.lite_angle_max))
           /\ out.lite_eval
           /\ out.checks.phase <=> (loc.args.angle <= out.amax)

\* C29: with a decile <= 2 the adjusted strong angle max is at least the
\* configured strong_angle_max, so an angle that passes the strong phase
\* gate without a decile passes it with the low decile.
C29_LowRegimeNeverTightens ==
    (pc = "lib" /\ loc.fn = "tiers" /\ loc.args.coc_stats.kind = "ok"
     /\ loc.args.coc_stats.decile <= 2) =>
        /\ out.amax >= loc.args.args.strong_angle_max
        /\ (loc.args.angle <= loc.args.args.strong_angle_max) => out.checks.phase

\* a low decile where both the cap of 60 and the floor of 0 bite
C14_Witness ==
    /\ pc = "lib" /\ loc.fn = "tiers"
    /\ loc.args.coc_stats = [kind |-> "ok", decile |-> 2]
    /\ loc.args.args.strong_angle_max = 55 /\ out.amax = 60
    /\ loc.args.args.strong_angle_min = 3 /\ out.amin = 0
    /\ loc.args.angle = 58 /\ out.checks.phase

\* back to the caller
Returned ==
    /\ pc = "lib" /\ loc.fn # "none"
    /\ loc' = [fn |-> "none"]
    /\ out' = NoRecord
    /\ UNCHANGED <<pc, raises, appended, file, watchRun, signals_jsonl, held>>

\* _rng (line 27) is seeded with 40 when the module is loaded, once per
\* process: the run-th process starts its draws at the head of the stream
\* (RngStartCarried: a generator that goes on where the last process left it)
RngStartCarried(run) == 2 * (run - 1)
RngStart(run) == 0

\* the noise the seeded generator yields, draw after draw (1/100)
NoiseStream ==
    << VecSub(MockDraws.bull1, Uniform(104)), VecSub(MockDraws.bear1, Uniform(96)),
       VecSub(MockDraws.bull2, Uniform(104)), VecSub(MockDraws.bear2, Uniform(96)) >>

\* _mock_vec(bias) as the k-th draw of a process
_mock_vec(bias, k) == VecAdd(Uniform(bias), NoiseStream[((k - 1) % Len(NoiseStream)) + 1])

\* lines 221-227: the assets are loaded in the order of ASSETS; each missing
\* one takes two draws, the bull record's then the bear record's
LoadAgents(files, start) ==
    [a \in AssetSet |->
        IF files[a].status # "missing" THEN files[a]
        ELSE LET i == CHOOSE n \in 1..Len(ASSETS) : ASSETS[n] = a
                 j == Cardinality({n \in 1..i : files[ASSETS[n]].status = "missing"})
             IN MissingFile(_mock_vec(104, start + 2 * j - 1), _mock_vec(96, start + 2 * j))]

\* main as the run-th process started on the same machine
mainOfProcess(in, st, run) ==
    Outcome(Coherence(LoadAgents(FileSets[in.files], RngStart(run)), in.args.kappa),
            AgentOf(in), in, st)

\* persisted states two runs may both be started on
PairStates == {AbsentState, write_state("WATCH", 0), write_state("WATCH", 1)}

PairInputs ==
    { Input(n, a, s[1], s[2]) :
        n \in {"mock_btc", "mock_all", "mock_peers", "even_sweet"},
        a \in {PlainAgent, [PlainAgent EXCEPT !.volume_ratio = 87], ThinAgent},
        s \in Setups }

\* two processes given the same inputs and the same persisted state
RunTwice ==
    \E in \in PairInputs, st \in PairStates :
        Returns("twice", [in |-> in, state |-> st],
                [first  |-> mainOfProcess(in, st, 1),
                 second |-> mainOfProcess(in, st, 2)])

RefDeltas == { ZeroVec, <<2, 2, 2, 2, 2>>, <<-1, 1, 0, 0, 0>>, <<3, 0, -3, 1, 0>>, <<1, 0, 0, 0, 0>> }

Kappas == {10, 25}

\* 25 times the variance of the components, exactly
Var25(d) == 5 * VecDot(d, d) - VecSum(d) * VecSum(d)

\* c_raw_from_delta called on two delta vectors with the same kappa
CallCRaw ==
    \E d1 \in LibDeltas, d2 \in RefDeltas, kappa \in Kappas :
        Returns("c_raw", [d1 |-> d1, d2 |-> d2, kappa |-> kappa],
                [c1 |-> c_raw_from_delta(d1, kappa), c2 |-> c_raw_from_delta(d2, kappa)])

\* C17: C_raw lies in (0,100], is 100 exactly when all the components of
\* the delta vector are equal, and is strictly decreasing in the deviation.
C17_CRawContract ==
    (pc = "lib" /\ loc.fn = "c_raw") =>
        LET v1 == Var25(loc.args.d1)
            v2 == Var25(loc.args.d2)
        IN /\ out.c1 > 0 /\ out.c1 <= 100000
           /\ out.c2 > 0 /\ out.c2 <= 100000
           /\ (out.c1 = 100000) <=> (\A i \in 1..5 : loc.args.d1[i] = loc.args.d1[1])
           /\ (out.c2 = 100000) <=> (\A i \in 1..5 : loc.args.d2[i] = loc.args.d2[1])
           /\ (v1 < v2) => (out.c1 > out.c2)
           /\ (v1 > v2) => (out.c1 < out.c2)
           /\ (v1 = v2) => (out.c1 = out.c2)

\* a vector of equal non-zero components against one a single step off
C17_Witness ==
    /\ pc = "lib" /\ loc.fn = "c_raw"
    /\ loc.args.d2 = <<2, 2, 2, 2, 2>> /\ out.c2 = 100000
    /\ Var25(loc.args.d1) = 4 /\ out.c1 < 100000

\* local coherences apply_global_alignment is called on (1/1000)
LocalCoherences == {100000, 66000, 40000}

\* apply_global_alignment called on an angle in whole degrees of [0,180]
CallAlign ==
    \E c_local \in LocalCoherences, angle \in 0..180 :
        Returns("align", [c_local |-> c_local, angle |-> angle],
                [C_loc |-> apply_global_alignment(c_local, angle), mult |-> AlignMult(angle)])

SmoketestMult(delta) ==
    IF delta <= 15 THEN 120
    ELSE IF delta > 45 THEN 70
    ELSE 100

\* C19: the multiplier the engine applies to an angle is the phase weight
\* of the coherence contract: 1.20 up to 15 degrees, 0.70 above 45 and
\* 1.00 in between.
C19_EngineFollowsContract ==
    (pc = "lib" /\ loc.fn = "align") => out.mult = SmoketestMult(loc.args.angle)

\* the engine with the veto removed: no trap_T is above a cutoff of 1.00, so
\* line 331 yields False on every input
WithoutVeto(in) == [in EXCEPT !.args.trap_cutoff = 100]

VetoInputs ==
    { Input(n, a, s[1], s[2]) :
        n \in {"even_sweet", "even_loose"}, a \in BtcAgents,
        s \in { x \in Setups : x[2].kind # "unreadable" } }

\* the engine and the engine without the veto, on the same inputs and the
\* same persisted state
RunBoth ==
    \E in \in VetoInputs, st \in PairStates :
        Returns("veto", [in |-> in, state |-> st],
                [with    |-> main(in, st),
                 without |-> main(WithoutVeto(in), st)])

\* the fields of a logged record but those the veto may change
Unvetoed(rec) ==
    [f \in DOMAIN rec \ {"failed_checks", "hard_gate_reason"} |-> rec[f]]

\* C25: the engine without the trap veto logs the same signal and mode on
\* every input; its record differs at most in failed_checks and
\* hard_gate_reason, and it leaves the same state file.
C25_VetoChangesNoSignal ==
    (pc = "lib" /\ loc.fn = "veto") =>
        /\ out.with.pc = out.without.pc
        /\ out.with.out.signal = out.without.out.signal
        /\ out.with.pc = "done" => out.with.out.mode = out.without.out.mode
        /\ Unvetoed(out.with.out) = Unvetoed(out.without.out)
        /\ out.with.file = out.without.file

\* a run the veto fires on
C25_Witness ==
    /\ pc = "lib" /\ loc.fn = "veto"
    /\ out.with.pc = "done" /\ out.with.loc.trap_veto /\ ~out.without.loc.trap_veto
    /\ out.with.out.hard_gate_reason = "trap_veto"
    /\ out.without.out.hard_gate_reason # "trap_veto"

\* coc/core/coc.py: a coc_basket that is not a number
NaN == -1

\* the longest coc_time_series.csv found
MaxHist == 3

\* the coc_basket values in the history and of the day (1/100)
Baskets == {NaN, 40, 50, 60}

Histories == UNION { [1..n -> Baskets] : n \in 0..MaxHist }

\* series.quantile(i/10) >= is compared without the division: ten times the
\* linear interpolation between the order statistics around (n-1)*i/10
Quantile10(sorted, i) ==
    LET n  == Len(sorted)
        h  == (n - 1) * i
        lo == (h \div 10) + 1
        hi == IF lo < n THEN lo + 1 ELSE lo
    IN 10 * sorted[lo] + (h % 10) * (sorted[hi] - sorted[lo])

\* lines 56-64: the decile of the latest value among the values kept
DecileOf(hist) ==
    LET series == SelectSeq(hist, LAMBDA x : x # NaN)
        sorted == SortSeq(series, LAMBDA a, b : a < b)
    IN IF series = <<>> THEN 5
       ELSE Cardinality({i \in 0..10 : 10 * series[Len(series)] >= Quantile10(sorted, i)}) - 1

\* compute_and_persist on the history found and the metrics of the day:
\* neutral values when there are no metrics, else the day's coc_basket is
\* appended to the history and the decile taken
compute_and_persist(hist, coc_basket, no_metrics) ==
    IF no_metrics
    THEN [coc_basket |-> 50, decile |-> 5, hist |-> <<50>>]
    ELSE [coc_basket |-> coc_basket, decile |-> DecileOf(Append(hist, coc_basket)),
          hist |-> Append(hist, coc_basket)]

CallCoc ==
    \E hist \in Histories, coc_basket \in Baskets, no_metrics \in BOOLEAN :
        Returns("compute_and_persist",
                [hist |-> hist, coc_basket |-> coc_basket, no_metrics |-> no_metrics],
                compute_and_persist(hist, coc_basket, no_metrics))

\* C30: the decile compute_and_persist returns and persists is an integer
\* of 0..9, whatever the history of coc_basket values.
C30_DecileInRange ==
    (pc = "lib" /\ loc.fn = "compute_and_persist") => out.decile \in 0..9

LibNext ==
    \/ CallAligned \/ CallTiers \/ RunTwice \/ CallCRaw \/ CallAlign \/ RunBoth
    \/ CallCoc \/ Returned

SpecLib == LibInit /\ [][LibNext]_vars

\* ------------------------------------------------------------------------
\* Signals: contracts/signal.py, analytics/signals_io.py, analytics/metrics.py
\* ------------------------------------------------------------------------
\* a datetime is [sec, micro]; isoformat() leaves the fraction out when the
\* microseconds are 0
isoformat(dt) == IF dt.micro = 0 THEN <<dt.sec>> ELSE <<dt.sec, dt.micro>>

fromisoformat(str) == [sec |-> str[1], micro |-> IF Len(str) = 1 THEN 0 ELSE str[2]]

\* Signal.Config.json_encoders
json_encoder(dt) == isoformat([dt EXCEPT !.micro = 0])

\* Signal.key(): symbol|horizon_min|ts_src.isoformat()
key(s) == <<s.symbol, s.horizon_min, isoformat(s.ts_src)>>

\* one line of signals.jsonl
model_dump_json(s) ==
    [trace_id |-> s.trace_id, ts_src |-> json_encoder(s.ts_src),
     ts_effective |-> json_encoder(s.ts_effective), symbol |-> s.symbol,
     horizon_min |-> s.horizon_min, side |-> s.side, strength |-> s.strength]

model_validate_json(line) ==
    [trace_id |-> line.trace_id, ts_src |-> fromisoformat(line.ts_src),
     ts_effective |-> fromisoformat(line.ts_effective), symbol |-> line.symbol,
     horizon_min |-> line.horizon_min, side |-> line.side, strength |-> line.strength]

\* load_signals_jsonl on the lines of the file (write_signals_jsonl leaves
\* no blank line)
load_signals_jsonl(lines) == [i \in 1..Len(lines) |-> model_validate_json(lines[i])]

\* hit_rate_from_realized in 1/1000; realized moves in 1/1000, strength in 1/10
hit_rate_from_realized(signals, realized_moves) ==
    LET known == {i \in 1..Len(signals) : key(signals[i]) \in DOMAIN realized_moves}
        hit(i) == LET s == signals[i]
                      r == realized_moves[key(s)]
                  IN \/ (s.side = "long" /\ s.strength > 5 /\ r > 0)
                     \/ (s.side = "short" /\ s.strength > 5 /\ r < 0)
                     \/ (s.side = "flat" /\ r = 0)
        hits == Cardinality({i \in known : hit(i)})
        total == Cardinality(known)
    IN IF total # 0 THEN (1000 * hits) \div total ELSE 0

\* Signal(...) as the callers build it: ts_effective five minutes on
Signal(trace_id, sec, micro, symbol, side, strength) ==
    [trace_id |-> trace_id, ts_src |-> [sec |-> sec, micro |-> micro],
     ts_effective |-> [sec |-> sec + 300, micro |-> micro], symbol |-> symbol,
     horizon_min |-> 5, side |-> side, strength |-> strength]

Signals ==
    { Signal("a", 0, 0, "BTC", "long", 9), Signal("b", 0, 0, "ETH", "short", 8),
      Signal("c", 0, 0, "SOL", "flat", 2), Signal("d", 60, 0, "BTC", "long", 5),
      Signal("e", 60, 250000, "ETH", "long", 9), Signal("f", 60, 500000, "BTC", "short", 8) }

SignalBatches == { <<>> } \cup { <<s>> : s \in Signals } \cup { <<s, t>> : s, t \in Signals }

\* realized moves (1/1000) a caller keys by the key() of the signals it wrote
Moves == {12, -7, 0}

\* the most lines signals.jsonl grows to
MaxSignals == 3

SigInit ==
    /\ pc = "analytics"
    /\ raises = None
    /\ out = NoRecord
    /\ loc = [fn |-> "none", written |-> <<>>]
    /\ appended = NoLines
    /\ file = AbsentState
    /\ watchRun = 0
    /\ signals_jsonl = <<>>
    /\ held = NoRecord

\* write_signals_jsonl(S, dir): one line per signal, appended; returns the path
write_signals_jsonl ==
    \E S \in SignalBatches :
        /\ Len(signals_jsonl) + Len(S) <= MaxSignals
        /\ signals_jsonl' = signals_jsonl \o [i \in 1..Len(S) |-> model_dump_json(S[i])]
        /\ loc' = [fn |-> "write_signals_jsonl", written |-> loc.written \o S]
        /\ out' = "signals.jsonl"
        /\ UNCHANGED <<pc, raises, appended, file, watchRun, held>>

\* load_signals_jsonl(path) on the path write_signals_jsonl returned
LoadSignals ==
    /\ loc.fn = "write_signals_jsonl"
    /\ out' = load_signals_jsonl(signals_jsonl)
    /\ loc' = [loc EXCEPT !.fn = "load_signals_jsonl"]
    /\ UNCHANGED <<pc, raises, appended, file, watchRun, signals_jsonl, held>>

\* hit_rate_from_realized over the loaded signals and over the written ones,
\* on moves keyed by the written signals
HitRates ==
    /\ loc.fn = "load_signals_jsonl"
    /\ \E realized \in [{key(loc.written[i]) : i \in 1..Len(loc.written)} -> Moves] :
           out' = [loaded |-> hit_rate_from_realized(out, realized),
                   written |-> hit_rate_from_realized(loc.written, realized)]
    /\ loc' = [loc EXCEPT !.fn = "hit_rate_from_realized"]
    /\ UNCHANGED <<pc, raises, appended, file, watchRun, signals_jsonl, held>>

SigNext == write_signals_jsonl \/ LoadSignals \/ HitRates

SpecSignals == SigInit /\ [][SigNext]_vars

\* C20: loading the file that was written returns every signal written to
\* the directory, in write order and with unchanged key(), side and
\* strength, and the hit rate over the loaded signals is the one over the
\* written signals.
C20_SignalsRoundTrip ==
    /\ loc.fn = "load_signals_jsonl" =>
           /\ Len(out) = Len(loc.written)
           /\ \A i \in 1..Len(out) :
                  /\ key(out[i]) = key(loc.written[i])
                  /\ out[i].side = loc.written[i].side
                  /\ out[i].strength = loc.written[i].strength
    /\ loc.fn = "hit_rate_from_realized" => out.loaded = out.written

\* ------------------------------------------------------------------------
\* a scheduler repeating main on inputs held constant
\* ------------------------------------------------------------------------
\* the largest lite_starve_cycles configured
MaxStarve == 3

\* line 207: --lite_starve_cycles N
StarveCycles == 0..MaxStarve

\* the inputs on which only the starvation guard can keep the lite tier from
\* a signal: with the guard satisfied from the start the run decides lite
\* (so volume_ratio >= 0.80, the strong tier fails, no veto, the other lite
\* checks pass)
LiteButForStarvation(in) ==
    LET r == main([in EXCEPT !.args.lite_starve_cycles = <<0>>], AbsentState)
    IN r.pc = "done" /\ r.out.mode = "lite"

\* BTC records with a directional bias and a herald
HeldAgents ==
    { Agent(t, v, h, 10) :
        t \in {<<TFs.bull, IndBull>>, <<TFs.bear, IndBear>>},
        v \in {87, 95, 135},
        h \in {x \in HeraldInputs : HeraldOf(x).herald_ok} }

HeldInputs ==
    { in \in { Input(n, a, [DefaultArgs EXCEPT !.lite_starve_cycles = <<N>>], cs) :
                 n \in {"even_sweet", "even_loose", "near_tight"}, a \in HeldAgents,
                 N \in StarveCycles,
                 cs \in {AbsentCoc, [kind |-> "ok", decile |-> 1]} } :
        LiteButForStarvation(in) }

\* loop_state.json as the first of the runs may find it
StarveStates ==
    ForeignStates
    \cup { [kind |-> "dict", starve_cnt |-> k, last_strong |-> b] :
              k \in 0..(MaxStarve + 1), b \in BOOLEAN }

\* loop_state.json as the runs find it: as the first does, or as the
\* run before wrote it
HeldStates ==
    StarveStates
    \cup { write_state(sig, k) : sig \in {"BUY", "SELL", "WATCH"}, k \in 0..(MaxStarve + 1) }

\* the inputs held, with how main ends on them by the state file it finds
Held(in) == [in |-> in, main |-> [st \in HeldStates |-> main(in, st)]]

InitHeld ==
    /\ pc = "idle"
    /\ raises = None
    /\ out = NoRecord
    /\ loc = NoRecord
    /\ appended = NoLines
    /\ file \in StarveStates
    /\ watchRun = 0
    /\ signals_jsonl = <<>>
    /\ held \in { Held(in) : in \in HeldInputs }

\* the next run of main, on the same inputs
RunHeld ==
    /\ pc = "idle"
    /\ held # NoRecord
    /\ Ends(held.main[file])

NextHeld == RunHeld \/ Exit

\* the scheduler goes on starting runs, and each process exits
SpecHeld == InitHeld /\ [][NextHeld]_vars /\ WF_vars(RunHeld) /\ WF_vars(Exit)

\* C21: with lite_starve_cycles = N and inputs held constant on which only
\* the starvation guard can fail, the runs eventually decide a lite signal,
\* and never log more than N WATCH decisions in a row, whatever
\* loop_state.json held at the start.
C21_StarvationEndsInLite ==
    /\ <>(pc = "done" /\ out.mode = "lite")
    /\ [](watchRun <= held.in.args.lite_starve_cycles[1])

\* ------------------------------------------------------------------------
\* further properties of the runs of main
\* ------------------------------------------------------------------------
\* C22: every decision of mode strong has size_band Full.
C22_StrongIsFull == (Decided /\ out.mode = "strong") => out.size_band = "Full"

\* a strong decision whose C_eff is less than 20 points above its threshold
C22_Witness ==
    /\ pc = "done" /\ out.mode = "strong" /\ out.size_band = "Full"
    /\ out.C_eff < out.checks_values.ceff.thr + 20000

C24_SignalFollowsAlignment ==
    (Decided /\ out.signal # "WATCH") =>
        LET tf == loc.A.tf_alignment
        IN /\ loc.tech_sign # 0
           /\ (out.signal = "BUY") <=> (tf.H4 = "bull" /\ tf.H1 = "bull")
           /\ (out.signal = "SELL") <=> (tf.H4 = "bear" /\ tf.H1 = "bear")

\* a SELL of the lite tier
C24_Witness ==
    /\ pc = "done" /\ out.signal = "SELL" /\ out.mode = "lite"
    /\ loc.tech_sign = -1 /\ loc.A.tf_alignment = TFs.bear

\* C26: under the default trap_cutoff of 0.80 no decision is vetoed: trap_T
\* is at most 0.70, the veto is false and is not reported.
C26_NoVetoByDefault ==
    (Decided /\ loc.args.trap_cutoff = DefaultArgs.trap_cutoff) =>
        /\ out.trap_T <= 70
        /\ pc = "done" => ~loc.trap_veto
        /\ "hard_gate_reason" \in DOMAIN out => out.hard_gate_reason # "trap_veto"
        /\ "failed_checks" \in DOMAIN out => "trap_veto" \notin SeqToSet(out.failed_checks)

\* the highest trap_T without a herald, not vetoed
C26_Witness ==
    /\ pc = "done" /\ loc.args.trap_cutoff = 80
    /\ out.trap_T = 70 /\ ~out.herald_ok /\ ~loc.trap_veto
    /\ out.signal = "WATCH" /\ out.hard_gate_reason # "trap_veto"

\* ------------------------------------------------------------------------
\* two invocations that may overlap on loop_state.json
\* ------------------------------------------------------------------------
Procs == {1, 2}

\* the command lines the two invocations are given
OverlapInputs ==
    { Input(n, a, args, AbsentCoc) :
        n \in {"even_sweet", "even_apart"},
        a \in {PlainAgent, [PlainAgent EXCEPT !.volume_ratio = 87], ThinAgent},
        args \in {DefaultArgs, [DefaultArgs EXCEPT !.lite_starve_cycles = <<2>>]} }

\* the largest starve_cnt the two invocations may find
MaxFound == 2

OverlapStates ==
    { AbsentState } \cup { write_state("WATCH", k) : k \in 0..(MaxFound - 1) }

InitOverlap ==
    /\ pc = [p \in Procs |-> "start"]
    /\ raises = None
    /\ loc = [p \in Procs |-> NoRecord]
    /\ appended = NoLines
    /\ file \in OverlapStates
    /\ out = [start |-> file, events |-> <<>>]
    /\ watchRun = 0
    /\ signals_jsonl = <<>>
    /\ held \in [Procs -> OverlapInputs]

\* lines 163-436 of process p, ending as r tells: the state file is read at
\* line 342, the decision taken and logged; a fastgate run and a run that
\* raises never come to the state update
Reads(p, r) ==
    /\ pc' = [pc EXCEPT ![p] = IF r.pc = "done" THEN "decided" ELSE "over"]
    /\ loc' = [loc EXCEPT ![p] = [signal     |-> r.out.signal,
                                  starve_cnt |-> read_state(file).starve_cnt]]
    /\ out' = [out EXCEPT !.events = Append(@, <<p, "read">>)]
    /\ appended' = [appended EXCEPT !.jsonl = @ + r.jsonl, !.skipped = @ + r.skipped,
                                    !.csv = @ + r.csv]
    /\ UNCHANGED <<raises, file, watchRun, signals_jsonl, held>>

ReadState == \E p \in Procs : pc[p] = "start" /\ Reads(p, main(held[p], file))

\* (StateWrittenFresh: the count read again at the time of the write)
StateWrittenFresh(l, f) == write_state(l.signal, read_state(f).starve_cnt)
\* lines 438-442: state_next is built on the count read at line 342
StateWritten(l, f) == write_state(l.signal, l.starve_cnt)

\* lines 438-446 of process p: the state file and the heartbeat
WriteState ==
    \E p \in Procs :
        /\ pc[p] = "decided"
        /\ file' = StateWritten(loc[p], file)
        /\ pc' = [pc EXCEPT ![p] = "done"]
        /\ out' = [out EXCEPT !.events = Append(@, <<p, "write">>)]
        /\ appended' = [appended EXCEPT !.heartbeat = @ + 1]
        /\ UNCHANGED <<raises, loc, watchRun, signals_jsonl, held>>

NextOverlap == ReadState \/ WriteState

SpecOverlap == InitOverlap /\ [][NextOverlap]_vars

\* where the event e of process p stands in the history
At(p, e) == CHOOSE i \in 1..Len(out.events) : out.events[i] = <<p, e>>

BothWrote == \A p \in Procs : pc[p] = "done"

\* both invocations read the file before either wrote it
Overlapped == \A p, q \in Procs : At(p, "read") < At(q, "write")

LaterWriter == CHOOSE p \in Procs : \A q \in Procs : At(q, "write") <= At(p, "write")

EarlierWriter == CHOOSE p \in Procs : p # LaterWriter

\* the starve_cnt a decision leaves behind one that was n
CountAfter(signal, n) == IF signal = "WATCH" THEN n + 1 ELSE 0

\* C27: when both invocations read loop_state.json before either writes it,
\* the persisted starve_cnt is the later writer's alone (two WATCH decisions
\* advance it by one); when the invocations are sequential it counts both.
C27_LostUpdate ==
    BothWrote =>
        LET n     == read_state(out.start).starve_cnt
            first == loc[EarlierWriter].signal
            last  == loc[LaterWriter].signal
        IN IF Overlapped
           THEN /\ file.starve_cnt = CountAfter(last, n)
                /\ (first = "WATCH" /\ last = "WATCH") => file.starve_cnt = n + 1
           ELSE /\ file.starve_cnt = CountAfter(last, CountAfter(first, n))
                /\ (first = "WATCH" /\ last = "WATCH") => file.starve_cnt = n + 2

\* overlapping invocations: the reset of a BUY/SELL overwritten by the
\* increment of a WATCH
C27_Witness ==
    /\ BothWrote /\ Overlapped
    /\ loc[EarlierWriter].signal \in {"BUY", "SELL"}
    /\ loc[LaterWriter].signal = "WATCH"
    /\ read_state(out.start).starve_cnt = 1
    /\ file.starve_cnt = 2

\* ------------------------------------------------------------------------
\* oprt_unified_analytics.py: the policy filter on a logged record
\* ------------------------------------------------------------------------
\* the engine always logs checks_values, so the defaults are not used
row_full_thr(r) == r.checks_values.ceff.thr

row_angle_minmax(r) ==
    [amin |-> r.checks_values.phase.thr_min, amax |-> r.checks_values.phase.thr_max]

\* the cutoff is the default whatever the row holds (1/100)
row_trap_cutoff(r, default_cut) == default_cut

within_angle(a, amin, amax) == (a >= amin) /\ (a <= amax)

\* trap_default=0.80 of passes_policy_row, in 1/100
TrapDefault == 80

passes_policy_row(r, trap_default) ==
    IF r.signal = "WATCH" THEN FALSE
    ELSE IF r.mode # "strong" THEN FALSE
    ELSE IF r.size_band # "Full" THEN FALSE
    ELSE IF ~within_angle(r.phase_angle_deg, row_angle_minmax(r).amin, row_angle_minmax(r).amax)
    THEN FALSE
    ELSE IF (r.trap_T > row_trap_cutoff(r, trap_default)) /\ ~r.herald_ok THEN FALSE
    ELSE r.C_eff >= row_full_thr(r)

\* C28: every decision logged BUY/SELL, strong and Full is accepted by
\* passes_policy_row applied to the logged record.
C28_AnalyticsAcceptsStrong ==
    (pc = "done" /\ out.signal \in {"BUY", "SELL"} /\ out.mode = "strong"
     /\ out.size_band = "Full")
        => passes_policy_row(out, TrapDefault)
====
